---- MODULE Spec2Model ----
(***************************************************************************)
(* Monte Carlo expectation-value engine of NetKet: the batched categorical *)
(* draw and the autoregressive direct sampler (netket/sampler/autoreg.py), *)
(* the estimator kernels (netket/vqs/mc/kernels.py) and the operator       *)
(* dispatch and expectation driver (netket/vqs/mc/common.py,               *)
(* netket/vqs/mc/mc_state/expect.py).                                      *)
(*                                                                         *)
(* Arrays are records [shape, data] with the data in row-major order, as   *)
(* numpy/jax keep them.  Python exceptions are records [err |-> name].     *)
(* Random keys are paths in the split tree: splitting key k into n gives   *)
(* k \o <<0>> .. k \o <<n-1>>.                                             *)
(***************************************************************************)
EXTENDS Integers, Sequences, FiniteSets, TLC

VARIABLES
    bc_in,      \* batch_choice: the arguments (a, p) and the uniform draws
    bc_out,     \* batch_choice: the returned record, or None
    k_in,       \* kernels: the arguments (pars, sigma, sigmap, mel, chunk_size)
    k_out,      \* kernels: kernel name -> returned value, error, or None
    sampler,    \* the constructed ARDirectSampler (with its model), or None
    ctor,       \* the last constructor call: its machine_pow and outcome
    sstate,     \* ARDirectSamplerState held by the variational state
    samples,    \* MCState's stored samples (chain_length, n_chains, dof), or None
    sigmaNext,  \* the configuration last returned by _sample_next, or None
    callLog,    \* what the last _sample_chain call did (evaluations, writes)
    keyOps,     \* every use of a random key so far, over all calls
    expectRes   \* outcome of the last expect call

vars == <<bc_in, bc_out, k_in, k_out, sampler, ctor, sstate, samples,
          sigmaNext, callLog, keyOps, expectRes>>

None == [none |-> TRUE]

IsNone(x) == "none" \in DOMAIN x

(***************************************************************************)
(* Bounds of the model.                                                    *)
(***************************************************************************)
MaxCats == 2          \* batch_choice: a.size ranges over 1..MaxCats
MaxWeight == 2        \* batch_choice: weights range over 0..MaxWeight
UDen == 3             \* uniform draws are k/UDen, k in 0..UDen-1
MaxChains == 2        \* sampler.n_chains_per_rank ranges over 1..MaxChains
MaxChainLength == 2   \* chain_length ranges over 1..MaxChainLength
MaxCalls == 2         \* _sample_chain is called at most MaxCalls times
HilbertSize == 2      \* hilbert.size of the variational state
MaxRows == 2          \* batch_choice and kernels: batch sizes range over 1..MaxRows
MaxPar == 1           \* kernels: the parameters of logpsi range over 0..MaxPar

(***************************************************************************)
(* Sequence and array helpers.                                             *)
(***************************************************************************)
RECURSIVE SumSeq(_)
SumSeq(s) == IF s = <<>> THEN 0 ELSE Head(s) + SumSeq(Tail(s))

RECURSIVE ProdSeq(_)
ProdSeq(s) == IF s = <<>> THEN 1 ELSE Head(s) * ProdSeq(Tail(s))

RECURSIVE Pow2(_)
Pow2(n) == IF n <= 0 THEN 1 ELSE 2 * Pow2(n - 1)

RECURSIVE Flatten(_)
Flatten(ss) == IF ss = <<>> THEN <<>> ELSE Head(ss) \o Flatten(Tail(ss))

Abs(x) == IF x < 0 THEN -x ELSE x

Last(s) == s[Len(s)]

Front(s) == SubSeq(s, 1, Len(s) - 1)

IsErr(x) == "err" \in DOMAIN x

Err(name) == [err |-> name]

Arr(shape, data) == [shape |-> shape, data |-> data]

\* F applied to the value of x, x being evaluated once
Bind(x, F(_)) == CHOOSE y \in {F(v) : v \in {x}} : TRUE

\* x.cumsum() along the last axis of one row
CumSum(row) == [i \in 1..Len(row) |-> SumSeq(SubSeq(row, 1, i))]

(***************************************************************************)
(* batch_choice (autoreg.py:25-43).  p is a sequence of rows of weights,   *)
(* u[i]/UDen is the uniform draw of row i, in [0, 1).                      *)
(***************************************************************************)
\* indices = (r > p_cumsum).sum(axis=1), with r = p_cumsum[:, -1:] * uniform
BatchChoiceIndex(row, ui) ==
    LET c == CumSum(row)
    IN  Cardinality({j \in 1..Len(row) : Last(c) * ui > c[j] * UDen})

\* out = a[indices]; jax clamps an index past the end to the last element
Take(a, idx) == IF idx + 1 > Len(a) THEN a[Len(a)] ELSE a[idx + 1]

batch_choice(u, a, p) ==
    LET indices == [i \in 1..Len(p) |-> BatchChoiceIndex(p[i], u[i])]
    IN  [indices |-> indices,
         out |-> [i \in 1..Len(p) |-> Take(a, indices[i])]]

(***************************************************************************)
(* Random keys (jax.random): a key is its path in the split tree.          *)
(***************************************************************************)
\* jax.random.split(key, n)
Split(key, n) == [i \in 1..n |-> Append(key, i - 1)]

RECURSIVE KeyHash(_)
KeyHash(key) ==
    IF key = <<>> THEN 0 ELSE Len(key) * (Last(key) + 1) + KeyHash(Front(key))

\* jax.random.uniform(key, shape=(n, 1)): n draws fixed by the key, as k/UDen
Uniform(key, n) == [i \in 1..n |-> (KeyHash(key) + i) % UDen]

KeyOp(op, key, by) == [op |-> op, key |-> key, by |-> by]

(***************************************************************************)
(* The model (a flax module exposing _conditional), consumed through its   *)
(* interface.  A cache is [origin, gen]: the key of the init that made it  *)
(* and the number of conditional evaluations that have updated it.         *)
(***************************************************************************)
LocalStates == <<-1, 1>>

StaleCache == [origin |-> <<-1>>, gen |-> HilbertSize]

\* model.init(key, sigma, 0, method=model._conditional)
ModelInit(model, key) ==
    IF model.has_cache
    THEN [params |-> "init", cache |-> [origin |-> key, gen |-> 0]]
    ELSE [params |-> "init"]

\* conditional weights of one row at site index, given the sites before it
ConditionalRow(row, index) ==
    IF index = 0 THEN <<1, 1>>
    ELSE IF row[index] = LocalStates[1] THEN <<1, 2>> ELSE <<1, 0>>

RowOf(arr, b) ==
    LET d == Last(arr.shape) IN SubSeq(arr.data, (b - 1) * d + 1, b * d)

\* model.apply(_variables, sigma, index, method=model._conditional,
\*             mutable=["cache"]) -> (p, mutables)
ModelApply(model, variables, sigma, index) ==
    [p |-> [b \in 1..sigma.shape[1] |-> ConditionalRow(RowOf(sigma, b), index)],
     mutables |->
        IF ~model.has_cache THEN [x \in {} |-> None]
        ELSE IF "cache" \in DOMAIN variables
        THEN [cache |-> [origin |-> variables.cache.origin,
                         gen |-> variables.cache.gen + 1]]
        ELSE [cache |-> [origin |-> <<>>, gen |-> 1]]]

(***************************************************************************)
(* ARDirectSampler (autoreg.py:55-96) and _sample_chain (autoreg.py:99-148)*)
(***************************************************************************)
\* a machine_pow value: its Python type and its value num/den
MP(type, num, den) == [type |-> type, num |-> num, den |-> den]

IsInt(v) == v.type \in {"int", "bool"}

\* the check with > in place of !=
PostInitRaisesAbove(machine_pow) ==
    IsInt(machine_pow) /\ machine_pow.num > 2 * machine_pow.den

\* __post_init__: isinstance(self.machine_pow, int) and self.machine_pow != 2
PostInitRaises(machine_pow) ==
    IsInt(machine_pow) /\ machine_pow.num # 2 * machine_pow.den

\* _init_cache
InitCache(model, key) ==
    LET variables == ModelInit(model, key)
    IN  IF "cache" \in DOMAIN variables THEN variables.cache ELSE None

\* _init_state
InitState(key) == [key |-> key]

\* _reset
Reset(state) == state

\* the cache left in the variables
PopCacheKeep(variables) == variables

\* variables.pop("cache")
PopCache(variables) == [f \in DOMAIN variables \ {"cache"} |-> variables[f]]

\* sigma.at[:, index].set(new)
SetColumn(sigma, index, new) ==
    LET d == sigma.shape[2]
    IN  Arr(sigma.shape,
            [i \in 1..Len(sigma.data) |->
                IF (i - 1) % d = index THEN new[((i - 1) \div d) + 1]
                ELSE sigma.data[i]])

\* the carried key used as it is, never split
ScanKeysNoSplit(key) == [new_key |-> key, key |-> key]

\* new_key, key = jax.random.split(key)
ScanKeys(key) == [new_key |-> Split(key, 2)[1], key |-> Split(key, 2)[2]]

\* new_key, key_init, key_scan = jax.random.split(state.key, 3)
ChainKeys(key) ==
    [new_key |-> Split(key, 3)[1], key_init |-> Split(key, 3)[2],
     key_scan |-> Split(key, 3)[3]]

\* scan_fun(carry, index); evals, writes and ops record what the step did
ScanFun(model, variables, carry, index) ==
    LET _variables == IF ~IsNone(carry.cache)
                      THEN [f \in DOMAIN variables \cup {"cache"} |->
                              IF f = "cache" THEN carry.cache ELSE variables[f]]
                      ELSE variables
        new_key == ScanKeys(carry.key).new_key
        key == ScanKeys(carry.key).key
    IN  Bind(ModelApply(model, _variables, carry.sigma, index), LAMBDA r :
        LET cache == IF "cache" \in DOMAIN r.mutables THEN r.mutables.cache ELSE None
            new == batch_choice(Uniform(key, Len(r.p)), LocalStates, r.p).out
        IN  [sigma |-> SetColumn(carry.sigma, index, new),
             cache |-> cache,
             key |-> new_key,
             writes |-> Append(carry.writes, index),
             evals |-> Append(carry.evals,
                         [index |-> index,
                          cache_in |-> IF "cache" \in DOMAIN _variables
                                       THEN _variables.cache ELSE None,
                          cache_out |-> cache,
                          subkey |-> key]),
             ops |-> carry.ops \o <<KeyOp("split", carry.key, "scan_fun"),
                                     KeyOp("consume", key, "batch_choice")>>])

\* jax.lax.scan(scan_fun, init, indices)
RECURSIVE Scan(_, _, _, _)
Scan(model, variables, carry, indices) ==
    IF indices = <<>> THEN carry
    ELSE Bind(ScanFun(model, variables, carry, Head(indices)), LAMBDA c :
              Scan(model, variables, c, Tail(indices)))

\* _sample_chain(sampler, model, variables, state, chain_length)
SampleChainFn(smp, variables0, state, chain_length) ==
    LET variables == IF "cache" \in DOMAIN variables0
                     THEN PopCache(variables0) ELSE variables0
        new_key == ChainKeys(state.key).new_key
        key_init == ChainKeys(state.key).key_init
        key_scan == ChainKeys(state.key).key_scan
        B == chain_length * smp.n_chains
        sigma0 == Arr(<<B, smp.hilbert>>, [i \in 1..(B * smp.hilbert) |-> 0])
        cache == InitCache(smp.model, key_init)
        indices == [i \in 1..smp.hilbert |-> i - 1]
    IN  Bind(Scan(smp.model, variables,
                  [sigma |-> sigma0, cache |-> cache, key |-> key_scan,
                   evals |-> <<>>, writes |-> <<>>, ops |-> <<>>],
                  indices), LAMBDA fin :
        [sigma |-> Arr(<<chain_length, smp.n_chains, smp.hilbert>>, fin.sigma.data),
         new_state |-> [f \in DOMAIN state |->
                          IF f = "key" THEN new_key ELSE state[f]],
         log |-> [key_init |-> key_init,
                  supplied |-> variables0,
                  evals |-> fin.evals,
                  writes |-> fin.writes,
                  last_carry_key |-> fin.key],
         ops |-> <<KeyOp("split", state.key, "_sample_chain"),
                   KeyOp("consume", key_init, "_init_cache")>> \o fin.ops])

\* _sample_next: sigma.squeeze(axis=0) of a chain of length 1
SampleNextFn(smp, variables0, state) ==
    Bind(SampleChainFn(smp, variables0, state, 1), LAMBDA r :
         [r EXCEPT !.sigma = Arr(Tail(r.sigma.shape), r.sigma.data)])

(***************************************************************************)
(* Estimator kernels (kernels.py).  exp is taken in base 2 and in fixed    *)
(* point: every kernel value is scaled by 2^Shift(pars, n), n the length   *)
(* of the configurations logpsi is given.                                  *)
(***************************************************************************)
\* logpsi(pars, x): the log-amplitude of one configuration x
LogPsi(pars, x) ==
    SumSeq([i \in 1..Len(x) |-> pars[((i - 1) % Len(pars)) + 1] * x[i]])

\* the largest |logpsi(x) - logpsi(y)| over configurations of n sites valued +-1
Shift(pars, n) ==
    2 * SumSeq([i \in 1..n |-> Abs(pars[((i - 1) % Len(pars)) + 1])])

\* exp(d), as 2^d scaled by 2^Shift(pars, n)
ExpS(pars, d, n) == Pow2(d + Shift(pars, n))

\* the sub-array at index b of axis 0
Slice0(arr, b) ==
    LET m == ProdSeq(Tail(arr.shape))
    IN  Arr(Tail(arr.shape), SubSeq(arr.data, (b - 1) * m + 1, b * m))

\* the rows (last axis) of an array, in row-major order
Rows(arr) ==
    LET d == Last(arr.shape)
    IN  [r \in 1..(Len(arr.data) \div d) |-> SubSeq(arr.data, (r - 1) * d + 1, r * d)]

\* local_value_kernel(logpsi, pars, sigma, sigmap, mel), one sample:
\* sigma (N,), sigmap (K, N), mel (K,)
local_value_kernel(pars, sigma, sigmap, mel) ==
    LET n == Len(sigma.data)
        rows == Rows(sigmap)
    IN  SumSeq([k \in 1..Len(rows) |->
            mel.data[k] * ExpS(pars, LogPsi(pars, rows[k]) - LogPsi(pars, sigma.data), n)])

\* local_value_squared_kernel
local_value_squared_kernel(pars, sigma, sigmap, mel) ==
    Abs(local_value_kernel(pars, sigma, sigmap, mel))
        * Abs(local_value_kernel(pars, sigma, sigmap, mel))

\* local_value_op_op_cost: logpsi on hstack((sigmap_k, sigma)) and hstack((sigma, sigma))
local_value_op_op_cost(pars, sigma, sigmap, mel) ==
    LET n == 2 * Len(sigma.data)
        rows == Rows(sigmap)
        s_s == sigma.data \o sigma.data
    IN  SumSeq([k \in 1..Len(rows) |->
            mel.data[k] * ExpS(pars, LogPsi(pars, rows[k] \o sigma.data) - LogPsi(pars, s_s), n)])

\* jax.vmap(kernel, in_axes=0) over a batch
VmapKernel(name, pars, sigma, sigmap, mel) ==
    [b \in 1..sigma.shape[1] |->
        LET s == Slice0(sigma, b)
            sp == Slice0(sigmap, b)
            m == Slice0(mel, b)
        IN  CASE name = "local_value_kernel" -> local_value_kernel(pars, s, sp, m)
              [] name = "local_value_squared_kernel" ->
                    local_value_squared_kernel(pars, s, sp, m)
              [] name = "local_value_op_op_cost" ->
                    local_value_op_op_cost(pars, s, sp, m)]

RECURSIVE Chunks(_, _)
Chunks(rows, size) ==
    IF Len(rows) <= size THEN <<rows>>
    ELSE <<SubSeq(rows, 1, size)>> \o Chunks(SubSeq(rows, size + 1, Len(rows)), size)

\* nkjax.vmap_batched(partial(logpsi, pars), in_axes=0, batch_size=chunk_size):
\* logpsi over the rows, chunk_size rows at a time (0 stands for None: all at once)
VmapBatched(pars, rows, chunk_size) ==
    LET cs == IF chunk_size = 0 THEN <<rows>> ELSE Chunks(rows, chunk_size)
    IN  Flatten([c \in 1..Len(cs) |->
                    [i \in 1..Len(cs[c]) |-> LogPsi(pars, cs[c][i])]])

\* a Python function object passed where an array is expected
Callable == [callable |-> TRUE]

\* local_valuekernel_chunked(logpsi, pars, sigma, sigmap, mel, *, chunk_size=None)
\* called with the keyword arguments kwargs; sigma (B, N), sigmap (B, K, N), mel (B, K)
local_valuekernel_chunked(pars, sigma, sigmap, mel, kwargs) ==
    IF ~(DOMAIN kwargs \subseteq {"chunk_size"}) THEN Err("TypeError")
    ELSE IF "callable" \in DOMAIN sigmap THEN Err("AttributeError")
    ELSE
    LET chunk_size == IF "chunk_size" \in DOMAIN kwargs THEN kwargs.chunk_size ELSE 0
        N == Last(sigma.shape)
        logpsi_s == VmapBatched(pars, Rows(Arr(<<Len(sigma.data) \div N, N>>, sigma.data)),
                                chunk_size)
        logpsi_sp == VmapBatched(pars, Rows(Arr(<<Len(sigmap.data) \div N, N>>, sigmap.data)),
                                 chunk_size)
        K == Len(logpsi_sp) \div Len(logpsi_s)
    IN  [values |->
            [b \in 1..Len(logpsi_s) |->
                SumSeq([k \in 1..K |->
                    mel.data[(b - 1) * K + k]
                        * ExpS(pars, logpsi_sp[(b - 1) * K + k] - logpsi_s[b], N)])]]

\* local_value_squaredkernel_chunked: passes batch_size=chunk_size on
local_value_squaredkernel_chunked(pars, sigma, sigmap, mel, kwargs) ==
    IF ~(DOMAIN kwargs \subseteq {"chunk_size"}) THEN Err("TypeError")
    ELSE
    LET chunk_size == IF "chunk_size" \in DOMAIN kwargs THEN kwargs.chunk_size ELSE 0
        r == local_valuekernel_chunked(pars, sigma, sigmap, mel,
                                       [batch_size |-> chunk_size])
    IN  IF IsErr(r) THEN r
        ELSE [values |-> [b \in 1..Len(r.values) |->
                            Abs(r.values[b]) * Abs(r.values[b])]]

\* local_value_op_op_cost_chunked: sigma_sigmap is the vmapped function itself,
\* never applied to (sigmap, sigma); passes batch_size=chunk_size on
local_value_op_op_cost_chunked(pars, sigma, sigmap, mel, kwargs) ==
    IF ~(DOMAIN kwargs \subseteq {"chunk_size"}) THEN Err("TypeError")
    ELSE
    LET chunk_size == IF "chunk_size" \in DOMAIN kwargs THEN kwargs.chunk_size ELSE 0
        N == Last(sigma.shape)
        s_s == Arr(<<sigma.shape[1], 2 * N>>,
                   Flatten([b \in 1..sigma.shape[1] |->
                               RowOf(sigma, b) \o RowOf(sigma, b)]))
    IN  local_valuekernel_chunked(pars, s_s, Callable, mel,
                                  [batch_size |-> chunk_size])

(***************************************************************************)
(* Operators, consumed through their interface.  An operator is a record   *)
(* [type, name, hilbert, diag, flat, dup, parent]: get_conn_padded gives   *)
(* two connected configurations per sample (the sample itself with matrix  *)
(* element diag, and the sample with its first site flipped with matrix    *)
(* element 1).  flat: it answers (batch, K, N) instead of the shape of     *)
(* sigma with (K, N) in place of N.  dup: the factor by which its leading  *)
(* batch dimension exceeds that of sigma (1 for a well-formed answer).     *)
(***************************************************************************)
ConnRows(op, row) ==
    <<row, [i \in 1..Len(row) |-> IF i = 1 THEN -row[i] ELSE row[i]]>>

RECURSIVE Repeat(_, _)
Repeat(s, n) == IF n <= 0 THEN <<>> ELSE s \o Repeat(s, n - 1)

\* operator.get_conn_padded(sigma) -> (sigmap, mels)
GetConnPadded(op, sigma) ==
    LET rows == Rows(sigma)
        N == Last(sigma.shape)
        lead == Front(sigma.shape)
        sp == Flatten([b \in 1..Len(rows) |-> Flatten(ConnRows(op, rows[b]))])
        ml == Flatten([b \in 1..Len(rows) |-> <<op.diag, 1>>])
        shape == IF op.flat THEN <<Len(rows) * op.dup>>
                 ELSE [i \in 1..Len(lead) |->
                          IF i = Len(lead) THEN lead[i] * op.dup ELSE lead[i]]
    IN  [sigmap |-> Arr(shape \o <<2, N>>, Repeat(sp, op.dup)),
         mels |-> Arr(shape \o <<2>>, Repeat(ml, op.dup))]

(***************************************************************************)
(* Dispatch (netket.utils.dispatch): exact resolution over the registered  *)
(* signatures by subclass match, the most specific one winning; no         *)
(* matching signature is a lookup error.                                   *)
(***************************************************************************)
Bases(t) ==
    CASE t = "LocalOperator" -> {"DiscreteOperator"}
      [] t = "Squared" -> {"DiscreteOperator"}
      [] t = "DiscreteOperator" -> {"AbstractOperator"}
      [] t = "ContinuousOperator" -> {"AbstractOperator"}
      [] t = "AbstractOperator" -> {"Any"}
      [] t = "MCState" -> {"VariationalState"}
      [] t = "VariationalState" -> {"Any"}
      [] OTHER -> {}

RECURSIVE IsSubclass(_, _)
IsSubclass(t, u) == t = u \/ \E b \in Bases(t) : IsSubclass(b, u)

SigMatches(args, sig) == \A i \in 1..Len(sig) : IsSubclass(args[i], sig[i])

Dispatch(registry, args) ==
    LET cands == {sig \in registry : SigMatches(args, sig)}
        best == {sig \in cands : \A c \in cands : SigMatches(sig, c)}
    IN  IF cands = {} THEN Err("NotFoundLookupError")
        ELSE IF best = {} THEN Err("AmbiguousLookupError")
        ELSE [sig |-> CHOOSE sig \in best : TRUE]

\* @dispatch registrations of expect.py (dispatch.abstract registers none)
GetConfigsRegistry == {<<"MCState", "Squared">>, <<"MCState", "DiscreteOperator">>}

GetFunRegistry == {<<"MCState", "Squared">>, <<"MCState", "DiscreteOperator">>}

ExpectRegistry == {<<"MCState", "DiscreteOperator">>}

(***************************************************************************)
(* The variational state (MCState) as expect reads it.  A world w is the   *)
(* part of the state a call may touch: [sstate, samples, keyOps, callLog,  *)
(* trace], trace being the calls made so far in the current expect.        *)
(***************************************************************************)
Ev(ev, arg) == [ev |-> ev, arg |-> arg]

Params == <<1, 0>>

\* vstate.variables = {"params": ..., **model_state}
VsVariables(smp) ==
    IF smp.stale THEN [params |-> "w", cache |-> StaleCache] ELSE [params |-> "w"]

\* MCState.sample(chain_length): reset, then sample a chain and store it
VsSample(smp, w, variables, chain_length) ==
    Bind(SampleChainFn(smp, variables, Reset(w.sstate), chain_length), LAMBDA r :
         [w EXCEPT !.sstate = r.new_state, !.samples = r.sigma,
                   !.keyOps = w.keyOps \o r.ops, !.callLog = r.log])

\* MCState.samples: the stored samples, sampled first when there are none
VsSamples(smp, w) ==
    LET w1 == [w EXCEPT !.trace = Append(@, Ev("samples", "vstate"))]
    IN  IF IsNone(w.samples)
        THEN VsSample(smp, w1, VsVariables(smp), smp.chain_length)
        ELSE w1

\* check_hilbert(A, B): raises when not A == B
CheckHilbertRaises(A, B) == ~(A = B)

\* get_configs for Squared asking the wrapper itself for its connections
GetConfigsSquaredOwn(smp, w, op) ==
    LET w0 == [w EXCEPT !.trace = Append(@, Ev("check_hilbert", op.name))]
    IN  IF CheckHilbertRaises(smp.hilbert, op.hilbert)
        THEN [w |-> w0, err |-> "NotImplementedError"]
        ELSE Bind(VsSamples(smp, w0), LAMBDA w1 :
             Bind(GetConnPadded(op, w1.samples), LAMBDA c :
                  [w |-> [w1 EXCEPT !.trace =
                             Append(@, Ev("get_conn_padded", op.name))],
                   sigma |-> w1.samples, sigmap |-> c.sigmap, mels |-> c.mels]))

\* get_configs(vstate: MCState, O: Squared)
GetConfigsSquared(smp, w, op) ==
    LET w0 == [w EXCEPT !.trace = Append(@, Ev("check_hilbert", op.name))]
    IN  IF CheckHilbertRaises(smp.hilbert, op.hilbert)
        THEN [w |-> w0, err |-> "NotImplementedError"]
        ELSE Bind(VsSamples(smp, w0), LAMBDA w1 :
             Bind(GetConnPadded(op.parent, w1.samples), LAMBDA c :
                  [w |-> [w1 EXCEPT !.trace =
                             Append(@, Ev("get_conn_padded", op.parent.name))],
                   sigma |-> w1.samples, sigmap |-> c.sigmap, mels |-> c.mels]))

\* get_configs reading the samples before it checks the Hilbert spaces
GetConfigsDiscreteLate(smp, w, op) ==
    Bind(VsSamples(smp, w), LAMBDA w1 :
         LET w2 == [w1 EXCEPT !.trace = Append(@, Ev("check_hilbert", op.name))]
         IN  IF CheckHilbertRaises(smp.hilbert, op.hilbert)
             THEN [w |-> w2, err |-> "NotImplementedError"]
             ELSE Bind(GetConnPadded(op, w1.samples), LAMBDA c :
                       [w |-> [w2 EXCEPT !.trace =
                                  Append(@, Ev("get_conn_padded", op.name))],
                        sigma |-> w1.samples, sigmap |-> c.sigmap,
                        mels |-> c.mels]))

\* get_configs(vstate: MCState, O: DiscreteOperator)
GetConfigsDiscrete(smp, w, op) ==
    LET w0 == [w EXCEPT !.trace = Append(@, Ev("check_hilbert", op.name))]
    IN  IF CheckHilbertRaises(smp.hilbert, op.hilbert)
        THEN [w |-> w0, err |-> "NotImplementedError"]
        ELSE Bind(VsSamples(smp, w0), LAMBDA w1 :
             Bind(GetConnPadded(op, w1.samples), LAMBDA c :
                  [w |-> [w1 EXCEPT !.trace =
                             Append(@, Ev("get_conn_padded", op.name))],
                   sigma |-> w1.samples, sigmap |-> c.sigmap, mels |-> c.mels]))

\* get_configs, dispatched
GetConfigs(smp, w, op) ==
    LET d == Dispatch(GetConfigsRegistry, <<"MCState", op.type>>)
    IN  IF IsErr(d) THEN [w |-> w, err |-> d.err]
        ELSE IF d.sig = <<"MCState", "Squared">> THEN GetConfigsSquared(smp, w, op)
        ELSE GetConfigsDiscrete(smp, w, op)

\* get_fun(vstate: MCState, O: Squared)
GetFunSquared == "local_value_squared_kernel"

\* get_fun(vstate: MCState, O: DiscreteOperator)
GetFunDiscrete == "local_value_kernel"

\* get_fun, dispatched
GetFun(op) ==
    LET d == Dispatch(GetFunRegistry, <<"MCState", op.type>>)
    IN  IF IsErr(d) THEN d
        ELSE IF d.sig = <<"MCState", "Squared">> THEN [fun |-> GetFunSquared]
        ELSE [fun |-> GetFunDiscrete]

(***************************************************************************)
(* The expectation driver (expect.py:67-121).                              *)
(***************************************************************************)
\* x.reshape(shape), shape holding at most one -1
Reshape(arr, shape) ==
    LET total == Len(arr.data)
        known == ProdSeq([i \in 1..Len(shape) |-> IF shape[i] = -1 THEN 1 ELSE shape[i]])
        infer == \E i \in 1..Len(shape) : shape[i] = -1
    IN  IF infer
        THEN IF known = 0 \/ total % known # 0 THEN Err("TypeError")
             ELSE Arr([i \in 1..Len(shape) |->
                          IF shape[i] = -1 THEN total \div known ELSE shape[i]],
                      arr.data)
        ELSE IF known # total THEN Err("TypeError") ELSE Arr(shape, arr.data)

\* nkjax.expect(log_pdf, local_value_vmap, parameters, sigma, sigmap, mels,
\*              n_chains=...): the vmapped kernel over axis 0 of its three
\* arguments, then the statistics of the local values
NkExpect(kernel, pars, sigma, sigmap, mels, n_chains) ==
    IF sigma.shape[1] # sigmap.shape[1] \/ sigma.shape[1] # mels.shape[1]
    THEN Err("ValueError")
    ELSE Bind(VmapKernel(kernel, pars, sigma, sigmap, mels), LAMBDA L :
              [local |-> L, mean_num |-> SumSeq(L), n |-> Len(L),
               n_chains |-> n_chains, batch |-> sigma.shape[1],
               n_conn |-> sigmap.shape[2]])

\* _expect(local_value_kernel, model_apply_fun, machine_pow, parameters,
\*         model_state, sigma, sigmap, mels)
ExpectFn(kernel, machine_pow, pars, sigma0, sigmap0, mels0) ==
    LET s_shape == sigma0.shape
    IN  Bind(IF Len(sigma0.shape) # 2
             THEN Reshape(sigma0, <<-1, Last(s_shape)>>) ELSE sigma0, LAMBDA sigma :
        Bind(IF Len(sigmap0.shape) # 3
             THEN Reshape(sigmap0, <<sigma.shape[1], -1, Last(s_shape)>>)
             ELSE sigmap0, LAMBDA sigmap :
        IF IsErr(sigmap) THEN sigmap
        ELSE Bind(IF Len(sigmap0.shape) # 3
                  THEN Reshape(mels0, Front(sigmap.shape)) ELSE mels0, LAMBDA mels :
             IF IsErr(mels) THEN mels
             ELSE NkExpect(kernel, pars, sigma, sigmap, mels, s_shape[1]))))

\* the body of expect, given what get_configs and get_fun returned
ExpectBody(smp, c, f) ==
    IF IsErr(c) THEN c
    ELSE IF IsErr(f) THEN [w |-> c.w, err |-> f.err]
    ELSE Bind(ExpectFn(f.fun, smp.machine_pow, Params, c.sigma, c.sigmap, c.mels),
              LAMBDA r :
              IF IsErr(r)
              THEN [w |-> c.w, err |-> r.err, kernel |-> f.fun,
                    sigma |-> c.sigma, sigmap |-> c.sigmap, mels |-> c.mels]
              ELSE [w |-> [c.w EXCEPT !.trace = Append(@, Ev("reduce", f.fun))],
                    stats |-> r, kernel |-> f.fun,
                    sigma |-> c.sigma, sigmap |-> c.sigmap, mels |-> c.mels])

\* a plain function in place of the dispatched one: the discrete entries for
\* every operator
ExpectNoDispatch(smp, w, op) ==
    Bind(GetConfigsDiscrete(smp, w, op), LAMBDA c :
         ExpectBody(smp, c, [fun |-> GetFunDiscrete]))

\* expect(vstate: MCState, O: DiscreteOperator) -> Stats, dispatched
Expect(smp, w, op) ==
    LET d == Dispatch(ExpectRegistry, <<"MCState", op.type>>)
    IN  IF IsErr(d) THEN [w |-> w, err |-> d.err]
        ELSE Bind(GetConfigs(smp, w, op), LAMBDA c :
                  Bind(GetFun(op), LAMBDA f : ExpectBody(smp, c, f)))

(***************************************************************************)
(* Inputs.                                                                 *)
(***************************************************************************)
MachinePows ==
    {MP("int", 1, 1), MP("int", 2, 1), MP("int", 3, 1),
     MP("float", 3, 1)}

Seeds == {0}

Op(type, name, hilbert, diag, flat, dup, parent) ==
    [type |-> type, name |-> name, hilbert |-> hilbert, diag |-> diag,
     flat |-> flat, dup |-> dup, parent |-> parent]

\* plain discrete operators: well-formed and ill-formed answers, and one on
\* another Hilbert space
LocalOps ==
    {Op("LocalOperator", "H", HilbertSize, 2, flat, dup, None) :
        flat \in BOOLEAN, dup \in 1..2}
    \cup {Op("LocalOperator", "H", HilbertSize + 1, 2, FALSE, 1, None)}

\* Squared(H): its own get_conn_padded is that of H^dagger H
SquaredOps ==
    {Op("Squared", "Squared(H)", h.hilbert, 5, FALSE, 1, h) :
        h \in {g \in LocalOps : ~g.flat /\ g.dup = 1}}

Operators ==
    LocalOps \cup SquaredOps
    \cup {Op("ContinuousOperator", "T", HilbertSize, 0, FALSE, 1, None)}

(***************************************************************************)
(* Specification of batch_choice alone: Init draws the arguments and the   *)
(* uniform draws, the action applies the function.                         *)
(***************************************************************************)
Categories(n) == [i \in 1..n |-> 10 * i]

IdleSampler ==
    /\ sampler = None /\ ctor = None /\ sstate = None /\ samples = None
    /\ sigmaNext = None /\ callLog = None /\ keyOps = <<>> /\ expectRes = None

InitChoice ==
    /\ \E n \in 1..MaxCats, b \in 1..MaxRows :
          \E p \in [1..b -> [1..n -> 0..MaxWeight]], u \in [1..b -> 0..(UDen - 1)] :
             /\ \A i \in 1..b : SumSeq(p[i]) > 0
             /\ bc_in = [a |-> Categories(n), p |-> p, u |-> u]
    /\ bc_out = None
    /\ k_in = None /\ k_out = None
    /\ IdleSampler

BatchChoiceCall ==
    /\ IsNone(bc_out)
    /\ bc_out' = batch_choice(bc_in.u, bc_in.a, bc_in.p)
    /\ UNCHANGED <<bc_in, k_in, k_out, sampler, ctor, sstate, samples,
                   sigmaNext, callLog, keyOps, expectRes>>

NextChoice == BatchChoiceCall

SpecChoice == InitChoice /\ [][NextChoice]_vars

(***************************************************************************)
(* Specification of the kernels alone: Init draws (pars, sigma, sigmap,    *)
(* mel, chunk_size), each action calls one kernel on the batch.            *)
(***************************************************************************)
KernelDims == {<<b, 2, 1>> : b \in 1..MaxRows}

MelValues == {-1, 2}

InitKernels ==
    /\ \E d \in KernelDims :
          \E pars \in [1..2 -> 0..MaxPar],
             s \in [1..(d[1] * d[3]) -> {-1, 1}],
             sp \in [1..(d[1] * d[2] * d[3]) -> {-1, 1}],
             m \in [1..(d[1] * d[2]) -> MelValues],
             c \in 0..MaxRows :
                k_in = [pars |-> pars,
                        sigma |-> Arr(<<d[1], d[3]>>, s),
                        sigmap |-> Arr(d, sp),
                        mel |-> Arr(<<d[1], d[2]>>, m),
                        chunk_size |-> c]
    /\ k_out = None
    /\ bc_in = None /\ bc_out = None
    /\ IdleSampler

KernelCall(name, value) ==
    /\ IsNone(k_out)
    /\ k_out' = [name |-> name, value |-> value]
    /\ UNCHANGED <<bc_in, bc_out, k_in, sampler, ctor, sstate, samples,
                   sigmaNext, callLog, keyOps, expectRes>>

Wrap(r) == [values |-> r]

CallLocalValue ==
    KernelCall("local_value_kernel",
               Wrap(VmapKernel("local_value_kernel",
                               k_in.pars, k_in.sigma, k_in.sigmap, k_in.mel)))

CallLocalValueSquared ==
    KernelCall("local_value_squared_kernel",
               Wrap(VmapKernel("local_value_squared_kernel",
                               k_in.pars, k_in.sigma, k_in.sigmap, k_in.mel)))

CallOpOpCost ==
    KernelCall("local_value_op_op_cost",
               Wrap(VmapKernel("local_value_op_op_cost",
                               k_in.pars, k_in.sigma, k_in.sigmap, k_in.mel)))

CallLocalValueChunked ==
    KernelCall("local_valuekernel_chunked",
               (local_valuekernel_chunked(
                        k_in.pars, k_in.sigma, k_in.sigmap, k_in.mel,
                        [chunk_size |-> k_in.chunk_size])))

CallLocalValueSquaredChunked ==
    KernelCall("local_value_squaredkernel_chunked",
               (local_value_squaredkernel_chunked(
                        k_in.pars, k_in.sigma, k_in.sigmap, k_in.mel,
                        [chunk_size |-> k_in.chunk_size])))

CallOpOpCostChunked ==
    KernelCall("local_value_op_op_cost_chunked",
               (local_value_op_op_cost_chunked(
                        k_in.pars, k_in.sigma, k_in.sigmap, k_in.mel,
                        [chunk_size |-> k_in.chunk_size])))

NextKernels ==
    \/ CallLocalValue
    \/ CallLocalValueSquared
    \/ CallOpOpCost
    \/ CallLocalValueChunked
    \/ CallLocalValueSquaredChunked
    \/ CallOpOpCostChunked

SpecKernels == InitKernels /\ [][NextKernels]_vars

(***************************************************************************)
(* Specification of the sampler, the variational state and expect.         *)
(***************************************************************************)
Constructed == ~IsNone(sampler)

\* _sample_chain may still be called
Budget == Len(sstate.key) <= MaxCalls

World == [sstate |-> sstate, samples |-> samples, keyOps |-> keyOps,
          callLog |-> callLog, trace |-> <<>>]

Init ==
    /\ bc_in = None /\ bc_out = None /\ k_in = None /\ k_out = None
    /\ IdleSampler

\* ARDirectSampler(hilbert, n_chains=nc, machine_pow=mp) and the MCState around it
Construct(mp, nc, cl, hc, stale, seed) ==
    /\ ~Constructed
    /\ ctor' = [machine_pow |-> mp, raised |-> PostInitRaises(mp)]
    /\ IF PostInitRaises(mp)
       THEN UNCHANGED <<sampler, sstate>>
       ELSE /\ sampler' = [machine_pow |-> mp, n_chains |-> nc,
                           hilbert |-> HilbertSize, model |-> [has_cache |-> hc],
                           chain_length |-> cl, stale |-> stale]
            /\ sstate' = InitState(<<seed>>)
    /\ sigmaNext' = None /\ expectRes' = None
    /\ UNCHANGED <<bc_in, bc_out, k_in, k_out, samples, callLog, keyOps>>

\* vstate.sample(chain_length=cl)
SampleChain(cl) ==
    /\ Constructed /\ Budget
    /\ \E w \in {VsSample(sampler, World, VsVariables(sampler), cl)} :
           /\ sstate' = w.sstate /\ samples' = w.samples
           /\ keyOps' = w.keyOps /\ callLog' = w.callLog
    /\ sigmaNext' = None /\ expectRes' = None
    /\ UNCHANGED <<bc_in, bc_out, k_in, k_out, sampler, ctor>>

\* sampler._sample_next(model, variables, state)
SampleNext ==
    /\ Constructed /\ Budget
    /\ \E r \in {SampleNextFn(sampler, VsVariables(sampler), sstate)} :
           /\ sstate' = r.new_state /\ sigmaNext' = r.sigma
           /\ keyOps' = keyOps \o r.ops /\ callLog' = r.log
    /\ expectRes' = None
    /\ UNCHANGED <<bc_in, bc_out, k_in, k_out, sampler, ctor, samples>>

\* sampler._reset(model, variables, state)
ResetState ==
    /\ Constructed
    /\ sstate' = Reset(sstate)
    /\ sigmaNext' = None /\ expectRes' = None
    /\ UNCHANGED <<bc_in, bc_out, k_in, k_out, sampler, ctor, samples,
                   callLog, keyOps>>

\* a parameter update: the stored samples are dropped
Invalidate ==
    /\ Constructed /\ ~IsNone(samples)
    /\ samples' = None
    /\ sigmaNext' = None /\ expectRes' = None
    /\ UNCHANGED <<bc_in, bc_out, k_in, k_out, sampler, ctor, sstate,
                   callLog, keyOps>>

DropW(r) == [f \in DOMAIN r \ {"w"} |-> r[f]]

\* expect(vstate, op)
ExpectCall(op) ==
    /\ Constructed
    /\ ~IsNone(samples) \/ Budget
    /\ \E r \in {Expect(sampler, World, op)} :
           /\ sstate' = r.w.sstate /\ samples' = r.w.samples
           /\ keyOps' = r.w.keyOps /\ callLog' = r.w.callLog
           /\ expectRes' = [op |-> op, trace |-> r.w.trace, out |-> DropW(r)]
    /\ sigmaNext' = None
    /\ UNCHANGED <<bc_in, bc_out, k_in, k_out, sampler, ctor>>

Next ==
    \/ \E mp \in MachinePows, nc \in 1..MaxChains, cl \in 1..MaxChainLength,
          hc \in BOOLEAN, stale \in BOOLEAN, seed \in Seeds :
            Construct(mp, nc, cl, hc, stale, seed)
    \/ \E cl \in 1..MaxChainLength : SampleChain(cl)
    \/ SampleNext
    \/ ResetState
    \/ Invalidate
    \/ \E op \in Operators : ExpectCall(op)

Spec == Init /\ [][Next]_vars

(***************************************************************************)
(* Properties.                                                             *)
(***************************************************************************)
Range(f) == {f[i] : i \in DOMAIN f}

OneHot(row, j) == row[j] > 0 /\ \A i \in DOMAIN row : i # j => row[i] = 0

\* C1: batch_choice returns one value per row, each an element of a with its
\* index in 0..n-1, and for a one-hot row with all weight in cell j the index is j
\* whatever the uniform draw, the draw 0 included.
C1_OneHotSelectsItsCell ==
    ~IsNone(bc_out) =>
        /\ Len(bc_out.out) = Len(bc_in.p)
        /\ \A i \in 1..Len(bc_in.p) :
              /\ bc_out.out[i] \in Range(bc_in.a)
              /\ bc_out.indices[i] \in 0..(Len(bc_in.a) - 1)
              /\ \A j \in 1..Len(bc_in.a) :
                    OneHot(bc_in.p[i], j) => bc_out.indices[i] = j - 1

Value2(mp) == mp.num = 2 * mp.den

\* C2, as stated: every machine_pow other than 2, whatever its type, raises at
\* construction, and 2 does not.
C2_AnyNonDefaultRaises ==
    ~IsNone(ctor) => (ctor.raised <=> ~Value2(ctor.machine_pow))

\* C2, amended: a Python int machine_pow other than 2 raises at construction and
\* leaves no sampler to sample with (no key has been used, nothing is stored);
\* machine_pow = 2 and every non-int value construct the sampler.
C2_IntNonDefaultRaises ==
    ~IsNone(ctor) =>
        /\ ctor.raised <=> (IsInt(ctor.machine_pow) /\ ~Value2(ctor.machine_pow))
        /\ ctor.raised =>
              /\ ~Constructed /\ IsNone(sstate) /\ IsNone(samples)
              /\ IsNone(sigmaNext) /\ keyOps = <<>>
        /\ ~ctor.raised => Constructed

C2_Witness ==
    /\ ~IsNone(ctor) /\ ctor.raised /\ ctor.machine_pow = MP("int", 3, 1)
    /\ ~Constructed

UnchunkedOf(name) ==
    CASE name = "local_valuekernel_chunked" -> "local_value_kernel"
      [] name = "local_value_squaredkernel_chunked" -> "local_value_squared_kernel"
      [] name = "local_value_op_op_cost_chunked" -> "local_value_op_op_cost"

ChunkedNames ==
    {"local_valuekernel_chunked", "local_value_squaredkernel_chunked",
     "local_value_op_op_cost_chunked"}

\* C3: each chunked kernel returns without error and gives, for every sample of
\* the batch, the value of the corresponding unchunked kernel on that sample.
C3_ChunkedAgreesWithUnchunked ==
    (~IsNone(k_out) /\ k_out.name \in ChunkedNames) =>
        /\ ~IsErr(k_out.value)
        /\ k_out.value.values =
              VmapKernel(UnchunkedOf(k_out.name),
                         k_in.pars, k_in.sigma, k_in.sigmap, k_in.mel)

ExpectReturned == ~IsNone(expectRes) /\ "stats" \in DOMAIN expectRes.out

ExpectRaised == ~IsNone(expectRes) /\ "err" \in DOMAIN expectRes.out

\* C4: the chain count expect hands to the statistics reducer is the number of
\* chains of the sampler that produced the samples.
C4_ChainCountIsNChains ==
    ExpectReturned => expectRes.out.stats.n_chains = sampler.n_chains

HilbertMismatch(op) ==
    /\ IsSubclass(op.type, "DiscreteOperator")
    /\ op.hilbert # sampler.hilbert

\* C5: expect with an operator on another Hilbert space, discrete or squared,
\* raises with check_hilbert the only call made: the samples are not read,
\* get_conn_padded is not called, no kernel is evaluated, and the stored samples
\* and the sampler state are as before.
C5_MismatchRaisesFirst ==
    [][(~IsNone(expectRes') /\ HilbertMismatch(expectRes'.op)) =>
          /\ "err" \in DOMAIN expectRes'.out
          /\ expectRes'.out.err = "NotImplementedError"
          /\ expectRes'.trace = <<Ev("check_hilbert", expectRes'.op.name)>>
          /\ "kernel" \notin DOMAIN expectRes'.out
          /\ samples' = samples /\ sstate' = sstate
          /\ keyOps' = keyOps /\ callLog' = callLog]_vars

C5_Witness ==
    /\ ExpectRaised /\ HilbertMismatch(expectRes.op)
    /\ expectRes.op.type = "LocalOperator"
    /\ IsNone(samples)

\* C6: expect with an operator that is neither a discrete operator nor a squared
\* wrapper raises the lookup error of expect's own dispatch: nothing is called,
\* no kernel is selected and no statistics are returned.
C6_DispatchMissRaises ==
    (~IsNone(expectRes) /\ ~IsSubclass(expectRes.op.type, "DiscreteOperator")) =>
        /\ "err" \in DOMAIN expectRes.out
        /\ expectRes.out.err = "NotFoundLookupError"
        /\ expectRes.trace = <<>>
        /\ "kernel" \notin DOMAIN expectRes.out
        /\ "stats" \notin DOMAIN expectRes.out

C6_Witness ==
    ExpectRaised /\ expectRes.op.type = "ContinuousOperator"

\* the leading (batch) dimensions of sigmap and mels against the batch of sigma
LeadMismatch(sigma, sigmap, mels) ==
    \/ ProdSeq(Front(Front(sigmap.shape))) # ProdSeq(Front(sigma.shape))
    \/ ProdSeq(Front(mels.shape)) # ProdSeq(Front(sigma.shape))

\* C7: when the leading dimensions of the sigmap/mels an operator returned
\* disagree with the batch size of sigma, expect raises and returns no statistics.
C7_LeadMismatchRaises ==
    (~IsNone(expectRes) /\ "sigmap" \in DOMAIN expectRes.out
        /\ LeadMismatch(expectRes.out.sigma, expectRes.out.sigmap,
                        expectRes.out.mels))
    => "err" \in DOMAIN expectRes.out

\* what the operator of whom get_conn_padded is to be asked answers, flattened
ConnOf(who, sigma) ==
    LET B == ProdSeq(Front(sigma.shape))
        N == Last(sigma.shape)
    IN  Bind(GetConnPadded(who, sigma), LAMBDA c :
             [sigma |-> Arr(<<B, N>>, sigma.data),
              sigmap |-> Arr(<<B, 2, N>>, c.sigmap.data),
              mels |-> Arr(<<B, 2>>, c.mels.data)])

LocalValuesOf(who, sigma) ==
    Bind(ConnOf(who, sigma), LAMBDA c :
         VmapKernel("local_value_kernel", Params, c.sigma, c.sigmap, c.mels))

CalledConn(name) == \E i \in 1..Len(expectRes.trace) :
                        expectRes.trace[i] = Ev("get_conn_padded", name)

WellFormed(op) == op.hilbert = sampler.hilbert /\ op.dup = 1

\* C8: for a squared wrapper expect returns statistics whose connected
\* configurations and matrix elements are those of operator.parent (the wrapper's
\* own get_conn_padded is not called) and whose local values are the squared
\* magnitudes of the local-value kernel; for a plain discrete operator they are
\* those of the operator itself with the local-value kernel.
C8_SquaredUsesParent ==
    ~IsNone(expectRes) =>
        /\ (expectRes.op.type = "Squared" /\ WellFormed(expectRes.op.parent)) =>
              /\ ExpectReturned
              /\ CalledConn(expectRes.op.parent.name)
              /\ ~CalledConn(expectRes.op.name)
              /\ expectRes.out.mels.data =
                    ConnOf(expectRes.op.parent, expectRes.out.sigma).mels.data
              /\ expectRes.out.sigmap.data =
                    ConnOf(expectRes.op.parent, expectRes.out.sigma).sigmap.data
              /\ expectRes.out.kernel = "local_value_squared_kernel"
              /\ Bind(LocalValuesOf(expectRes.op.parent, expectRes.out.sigma),
                      LAMBDA lv :
                      expectRes.out.stats.local =
                          [b \in 1..Len(lv) |-> Abs(lv[b]) * Abs(lv[b])])
        /\ (expectRes.op.type = "LocalOperator" /\ WellFormed(expectRes.op)) =>
              /\ ExpectReturned
              /\ CalledConn(expectRes.op.name)
              /\ expectRes.out.mels.data =
                    ConnOf(expectRes.op, expectRes.out.sigma).mels.data
              /\ expectRes.out.kernel = "local_value_kernel"
              /\ expectRes.out.stats.local =
                    LocalValuesOf(expectRes.op, expectRes.out.sigma)

C8_Witness ==
    /\ ExpectReturned /\ expectRes.op.type = "Squared"
    /\ WellFormed(expectRes.op.parent)
    /\ expectRes.out.kernel = "local_value_squared_kernel"

ChainCalls == {i \in 1..Len(keyOps) : keyOps[i].by = "_sample_chain"}

\* C9: over the calls made so far, each threading the state the last returned,
\* no key is used twice: every split and every random draw is of a key used
\* nowhere else, and the key stored in the state has not been used at all.
C9_KeysUsedOnce ==
    /\ \A i, j \in 1..Len(keyOps) : i # j => keyOps[i].key # keyOps[j].key
    /\ Constructed => \A i \in 1..Len(keyOps) : keyOps[i].key # sstate.key

C9_Witness ==
    /\ Cardinality(ChainCalls) >= 2
    /\ \E i \in 1..Len(keyOps) : keyOps[i].by = "batch_choice"

FreshCache == IF sampler.model.has_cache
              THEN [origin |-> callLog.key_init, gen |-> 0] ELSE None

\* C10: in the last _sample_chain call the sites were evaluated and written in
\* the order 0..D-1, once each; site 0 was evaluated with the cache this call's
\* own initialization made (none when the model has none), each later site with
\* the cache the site before it returned; and the returned state holds a key only.
C10_CacheFreshEachCall ==
    ~IsNone(callLog) =>
        /\ Len(callLog.evals) = sampler.hilbert
        /\ callLog.writes = [k \in 1..sampler.hilbert |-> k - 1]
        /\ \A k \in 1..Len(callLog.evals) :
              /\ callLog.evals[k].index = k - 1
              /\ callLog.evals[k].cache_in =
                    IF k = 1 THEN FreshCache ELSE callLog.evals[k - 1].cache_out
              /\ callLog.evals[k].cache_in # StaleCache
        /\ DOMAIN sstate = {"key"}

C10_Witness ==
    /\ ~IsNone(callLog) /\ Cardinality(ChainCalls) >= 2
    /\ "cache" \in DOMAIN callLog.supplied
    /\ sampler.model.has_cache

====
